---------------------------- MODULE Spec2Model ----------------------------
(***************************************************************************)
(* histodu: file-size histogram of a directory tree.                       *)
(*                                                                         *)
(* Two traversal engines of the repository are modelled side by side:      *)
(*   variant = "uring" : src/src/main.rs, one io_uring ring per rayon      *)
(*                       worker (struct Worker), batched statx / openat;   *)
(*   variant = "lib"   : src/src/lib.rs, dir_size_histogram, one rayon     *)
(*                       task per directory entry, blocking metadata.      *)
(* The file system, the kernel side of io_uring, the rayon pool and the    *)
(* hdrhistogram recorders are the environment.  The histogram is modelled  *)
(* as the exact bag of recorded sizes (its bucketing is out of scope).     *)
(***************************************************************************)
EXTENDS Integers, Sequences, FiniteSets, Bags, TLC

(***************************************************************************)
(* Bounds of the model.                                                    *)
(***************************************************************************)
\* Ring capacity.  The program uses 64 (main.rs:87) with a 64-bit occupancy
\* mask; the model scales both down together so that a directory can hold
\* more entries than the ring has slots.
IO_URING_ENTRIES == 2

\* Number of rayon worker threads (the program uses the number of CPUs).
NumWorkers == 2

\* Width of user_data in bits.  The program's is 64 (u64, read back as
\* i64); the model scales it to a width TLC's integers can hold.
UD_BITS == 16

(***************************************************************************)
(* Program constants.                                                      *)
(***************************************************************************)
\* const BUF_MASK_ALL: u64 = !0  -- every bit of the occupancy mask set.
BUF_MASK_ALL == 2^IO_URING_ENTRIES - 1

\* const INIT_DIR_BUF_LEN: usize = 4 << 10
INIT_DIR_BUF_LEN == 4096

\* errno values seen by the program (negated in a completion's result).
ENOENT == 2
EIO == 5
EBADF == 9
EACCES == 13
ENOTDIR == 20
EINVAL == 22
EMFILE == 24
ELOOP == 40
\* std::io::ErrorKind::Unsupported has no errno; a code of its own.
EUNSUPPORTED == 95

Workers == 1..NumWorkers
Slots == 0..(IO_URING_ENTRIES - 1)

(***************************************************************************)
(* The file system: a tree of nodes, node 1 the root directory.            *)
(*   kind   : what the entry is ("dir", "file", "symlink")                 *)
(*   dtype  : the d_type getdents64 reports ("unknown" on file systems     *)
(*            that do not fill it in)                                      *)
(*   size   : st_size / stx_size of the entry itself (lstat)               *)
(*   dev    : st_dev                                                       *)
(*   reclen : d_reclen of its directory record                             *)
(*   fail   : stat/open/read_dir of this entry fails with EACCES           *)
(*   lerr   : for a directory, the listing position at which getdents64    *)
(*            fails with EIO (-1: never)                                   *)
(*   target : for a symlink, the directory node it resolves to (0: it      *)
(*            dangles or resolves to something that is no directory)       *)
(*   linked : for the root, the root path given on the command line is a   *)
(*            symlink that resolves to this directory                      *)
(***************************************************************************)
File(p, n, sz) ==
    [parent |-> p, name |-> n, kind |-> "file", dtype |-> "file", size |-> sz,
     dev |-> 1, reclen |-> 24, fail |-> FALSE, lerr |-> -1,
     target |-> 0, linked |-> FALSE]

Dir(p, n) ==
    [parent |-> p, name |-> n, kind |-> "dir", dtype |-> "dir", size |-> 4096,
     dev |-> 1, reclen |-> 24, fail |-> FALSE, lerr |-> -1,
     target |-> 0, linked |-> FALSE]

Symlink(p, n) ==
    [parent |-> p, name |-> n, kind |-> "symlink", dtype |-> "symlink", size |-> 7,
     dev |-> 1, reclen |-> 24, fail |-> FALSE, lerr |-> -1,
     target |-> 0, linked |-> FALSE]

\* One directory holding more files than the ring has slots:
\* sizes {0, 100, 4096, 1000000}.
FlatTree ==
    << Dir(0, "root"), File(1, "z", 0), File(1, "a", 100),
       File(1, "b", 4096), File(1, "c", 1000000) >>

\* root/{d1/{x, s -> symlink}, d2/{y}, f}
NestTree ==
    << Dir(0, "root"), Dir(1, "d1"), Dir(1, "d2"), File(1, "f", 4096),
       File(2, "x", 100), Symlink(2, "s"), File(3, "y", 0) >>

\* d1 cannot be opened (permissions revoked).
UnreadableTree == [NestTree EXCEPT ![2].fail = TRUE]

\* d1 is a mount point: it and everything under it live on device 2.
MountTree == [NestTree EXCEPT ![2].dev = 2, ![5].dev = 2, ![6].dev = 2]

\* A file system that reports DT_UNKNOWN for d2 and f.
UnknownTypeTree == [NestTree EXCEPT ![3].dtype = "unknown", ![4].dtype = "unknown"]

\* x has a directory record larger than the initial buffer.
LongNameTree == [NestTree EXCEPT ![5].reclen = 5000]

\* Listing d1 fails with EIO after ".", ".." and x were returned.
ListErrorTree == [NestTree EXCEPT ![2].lerr = 3]

\* d1 can be opened but its first getdents64 fails.
UnlistableTree == [NestTree EXCEPT ![2].lerr = 0]

\* statx / metadata of f fails.
StatErrorTree == [NestTree EXCEPT ![4].fail = TRUE]

\* The root path is itself a symlink to the root directory, which holds
\* two symlinks back to the root (cycles for whoever follows them) and a
\* file: root/{r -> root, l -> root, f}.  r was still a directory when the
\* root was listed (d_type says directory) and is the symlink by the time
\* it is opened.
LinkTree ==
    << [Dir(0, "root") EXCEPT !.linked = TRUE],
       [Symlink(1, "r") EXCEPT !.target = 1, !.dtype = "dir"],
       [Symlink(1, "l") EXCEPT !.target = 1],
       File(1, "f", 4096) >>

Trees ==
    { FlatTree, NestTree, UnreadableTree, MountTree, UnknownTypeTree,
      LongNameTree, ListErrorTree, UnlistableTree, StatErrorTree,
      LinkTree }

\* The tree holds a symlink to a directory, at or below the root path.
HasDirLink(T) == T[1].linked \/ \E n \in 1..Len(T) : T[n].kind = "symlink" /\ T[n].target # 0


(***************************************************************************)
(* State.                                                                  *)
(***************************************************************************)
VARIABLES
    \* inputs, fixed during a run
    tree,             \* the directory tree
    variant,          \* "uring" (main.rs) or "lib" (lib.rs)
    include_empty,    \* Cli::include_empty / Config::include_empty
    one_file_system,  \* Cli::one_file_system / Config::one_file_system
    follow_root,      \* Cli::follow_root
    unix,             \* cfg(unix): the platform has st_dev
    \* the process
    main,             \* position of the main thread
    expect_dev_id,    \* lib.rs: Option<u64>, 0 = None
    fdtable,          \* fd -> directory node it is open on, 0 = closed
    fdpos,            \* fd -> kernel-tracked listing position
    tasks,            \* rayon scope: spawned tasks not yet started
    errs,             \* bag of reported errors
    \* struct Worker, one per pool thread
    pc,               \* position of the thread in its current task
    dirfd,            \* traverse_dir: the OwnedFd of the task, 0 = none
    iter,             \* traverse_dir: RawDir entries returned and not yet consumed
    local_buf,        \* traverse_dir: capacity of the local dirent_buf
    dirent_buf,       \* Worker::dirent_buf capacity
    active_mask,      \* Worker::active_mask
    params,           \* Worker::params
    bufs,             \* Worker::bufs (stx_size of each Statx buffer)
    sq,               \* uring submission queue: pushed, not yet submitted
    kern,             \* operations submitted to the kernel, not yet completed
    cq,               \* uring completion queue
    want,             \* argument of the submit_and_wait the thread blocks in
    recorder,         \* Worker::recorder / LOCAL_RECORDER: unflushed sizes
    \* the histogram
    retired,          \* sizes handed over by dropped recorders
    hist,             \* the SyncHistogram as of its last refresh
    out,              \* Output::count, -1 before it is computed
    \* history (not program state)
    recorded,         \* bag of nodes whose size was recorded
    visited,          \* bag of directory nodes a traversal task was started for
    full_waits,       \* number of enqueue calls that found the ring full
    einval_cap,       \* per worker: buffer capacity at the task's last EINVAL, 0 = none
    rec_by            \* the workers that recorded at least one size

inputs == << tree, variant, include_empty, one_file_system, follow_root, unix >>
procv == << main, expect_dev_id, fdtable, fdpos, tasks, errs >>
taskv == << pc, dirfd, iter, local_buf, dirent_buf >>
ringv == << active_mask, params, bufs, sq, kern, cq, want >>
histv == << recorder, retired, hist, out >>
ghostv == << recorded, visited, full_waits, einval_cap, rec_by >>
vars == << inputs, procv, taskv, ringv, histv, ghostv >>

Nodes == 1..Len(tree)
Fds == 3..(2 + Len(tree))

None == [dirfd |-> 0, name |-> ""]

(***************************************************************************)
(* Bit operations on the occupancy mask.                                   *)
(***************************************************************************)
RECURSIVE TrailingOnes(_)
TrailingOnes(m) == IF m % 2 = 1 THEN 1 + TrailingOnes(m \div 2) ELSE 0

RECURSIVE CountOnes(_)
CountOnes(m) == IF m = 0 THEN 0 ELSE (m % 2) + CountOnes(m \div 2)

Bit(m, i) == (m \div 2^i) % 2

\* m | (1 << i)
BitOr(m, i) == IF Bit(m, i) = 1 THEN m ELSE m + 2^i

\* Faulty variant: the bit of a completed slot is left as it is.
BitXorKeep(m, i) == m

\* m ^ (1 << i)
BitXor(m, i) == IF Bit(m, i) = 1 THEN m - 2^i ELSE m + 2^i

\* !(idx as u64): bitwise complement in the user_data width.
NotU64(x) == 2^UD_BITS - 1 - x

\* ent.user_data() as i64: the same bits read as a two's-complement number.
AsI64(x) == IF x >= 2^(UD_BITS - 1) THEN x - 2^UD_BITS ELSE x

\* !data on an i64.
NotI64(x) == -x - 1

(***************************************************************************)
(* The kernel's view of the tree.                                          *)
(***************************************************************************)
Children(d) == SelectSeq([i \in Nodes |-> i], LAMBDA i : tree[i].parent = d)

Entry(n) == [name |-> tree[n].name, dtype |-> tree[n].dtype, reclen |-> tree[n].reclen]

\* What getdents64 lists for directory d: ".", ".." and its children.
Listing(d) ==
    << [name |-> ".", dtype |-> "dir", reclen |-> 24],
       [name |-> "..", dtype |-> "dir", reclen |-> 24] >>
    \o [i \in 1..Len(Children(d)) |-> Entry(Children(d)[i])]

\* Path resolution of `name` relative to directory d: the node, or 0.
Lookup(d, name) ==
    LET hit == { n \in Nodes : tree[n].parent = d /\ tree[n].name = name }
    IN  IF hit = {} THEN 0 ELSE CHOOSE n \in hit : TRUE

RECURSIVE SumReclen(_, _, _)
SumReclen(L, from, to) ==
    IF from > to THEN 0 ELSE L[from].reclen + SumReclen(L, from + 1, to)

\* The results one getdents64 call on directory d at position p may give
\* with a buffer of `cap` bytes: [err, n] with n entries returned.
Getdents(d, p, cap) ==
    LET L == Listing(d)
        lerr == tree[d].lerr
        lim == IF lerr # -1 /\ lerr < Len(L) THEN lerr ELSE Len(L)
    IN  IF lerr # -1 /\ p >= lerr THEN { [err |-> EIO, n |-> 0] }
        ELSE IF p >= Len(L) THEN { [err |-> 0, n |-> 0] }
        ELSE IF L[p + 1].reclen > cap THEN { [err |-> EINVAL, n |-> 0] }
        ELSE { [err |-> 0, n |-> k] : k \in { j \in 1..(lim - p) : SumReclen(L, p + 1, p + j) <= cap } }

\* The lowest free descriptor, 0 when the table is full.
FreeFd(tbl) ==
    LET free == { f \in Fds : tbl[f] = 0 }
    IN  IF free = {} THEN 0 ELSE CHOOSE f \in free : \A g \in free : f <= g

\* The last step of path resolution: the entry itself, or, for a symlink
\* that is followed, what it resolves to (0: nothing).
Resolve(n, nofollow) ==
    IF tree[n].kind = "symlink" /\ ~nofollow THEN tree[n].target ELSE n

\* statx(dirfd, name, flags): [res, node, at], node the entry named and at
\* the inode whose attributes are returned.
KStatx(tbl, op) ==
    LET d == IF op.dirfd \in Fds THEN tbl[op.dirfd] ELSE 0
        n == IF d = 0 THEN 0 ELSE Lookup(d, op.name)
        t == IF n = 0 THEN 0 ELSE Resolve(n, op.nofollow)
    IN  IF d = 0 THEN [res |-> -EBADF, node |-> 0, at |-> 0]
        ELSE IF n = 0 THEN [res |-> -ENOENT, node |-> 0, at |-> 0]
        ELSE IF t = 0 THEN [res |-> -ENOENT, node |-> n, at |-> 0]
        ELSE IF tree[n].fail /\ tree[n].kind # "dir" THEN [res |-> -EACCES, node |-> n, at |-> 0]
        ELSE [res |-> 0, node |-> n, at |-> t]

\* openat(dirfd, name, O_RDONLY|O_DIRECTORY|O_CLOEXEC[|O_NOFOLLOW]):
\* [res, node, at], node the entry named and at the directory opened.
KOpenat(tbl, op) ==
    LET d == IF op.dirfd \in Fds THEN tbl[op.dirfd] ELSE 0
        n == IF d = 0 THEN 0 ELSE Lookup(d, op.name)
        t == IF n = 0 THEN 0 ELSE Resolve(n, op.nofollow)
    IN  IF d = 0 THEN [res |-> -EBADF, node |-> 0, at |-> 0]
        ELSE IF n = 0 THEN [res |-> -ENOENT, node |-> 0, at |-> 0]
        ELSE IF t = 0 THEN [res |-> -ENOENT, node |-> n, at |-> 0]
        ELSE IF tree[t].kind = "symlink" THEN [res |-> -ELOOP, node |-> n, at |-> 0]
        ELSE IF tree[t].kind # "dir" THEN [res |-> -ENOTDIR, node |-> n, at |-> 0]
        ELSE IF tree[t].fail THEN [res |-> -EACCES, node |-> n, at |-> 0]
        ELSE IF FreeFd(tbl) = 0 THEN [res |-> -EMFILE, node |-> n, at |-> 0]
        ELSE [res |-> FreeFd(tbl), node |-> n, at |-> t]

(***************************************************************************)
(* Initial state: Worker::new for every pool thread, nothing opened yet.   *)
(***************************************************************************)
Init ==
    /\ tree \in Trees
    /\ variant \in {"uring", "lib"}
    /\ include_empty \in BOOLEAN
    /\ one_file_system \in BOOLEAN
    /\ follow_root \in (IF variant = "uring" /\ HasDirLink(tree) THEN BOOLEAN ELSE {FALSE})
    /\ unix \in (IF variant = "lib" /\ one_file_system THEN BOOLEAN ELSE {TRUE})
    /\ main = "start"
    /\ expect_dev_id = 0
    /\ fdtable = [f \in Fds |-> 0]
    /\ fdpos = [f \in Fds |-> 0]
    /\ tasks = {}
    /\ errs = EmptyBag
    /\ pc = [w \in Workers |-> "idle"]
    /\ dirfd = [w \in Workers |-> 0]
    /\ iter = [w \in Workers |-> << >>]
    /\ local_buf = [w \in Workers |-> 0]
    /\ dirent_buf = [w \in Workers |-> IF variant = "uring" THEN INIT_DIR_BUF_LEN ELSE 0]
    /\ active_mask = [w \in Workers |-> 0]
    /\ params = [w \in Workers |-> [i \in Slots |-> None]]
    /\ bufs = [w \in Workers |-> [i \in Slots |-> 0]]
    /\ sq = [w \in Workers |-> << >>]
    /\ kern = [w \in Workers |-> {}]
    /\ cq = [w \in Workers |-> << >>]
    /\ want = [w \in Workers |-> 0]
    /\ recorder = [w \in Workers |-> EmptyBag]
    /\ retired = EmptyBag
    /\ hist = EmptyBag
    /\ out = -1
    /\ recorded = EmptyBag
    /\ visited = EmptyBag
    /\ full_waits = 0
    /\ einval_cap = [w \in Workers |-> 0]
    /\ rec_by = {}

(***************************************************************************)
(* main.rs: the io_uring engine.                                           *)
(***************************************************************************)
\* Vec::reserve(additional) on a vector of length 0 and capacity cap:
\* nothing when the capacity suffices, else amortised growth.
Reserve(cap, additional) ==
    IF cap >= additional THEN cap
    ELSE IF 2 * cap >= additional THEN 2 * cap ELSE additional

\* traverse_dir, 'resize exit: dirent_buf.reserve(self.dirent_buf.capacity() * 2)
\* where self.dirent_buf is what std::mem::take left behind.
Resize(local, own) == Reserve(local, own * 2)

\* Faulty variant: the directory open carries the plain slot index too.
MkOpUntagged(idx, fd, ent) ==
    IF ent.dtype # "dir"
    THEN [ud |-> idx, opc |-> "statx", dirfd |-> fd, name |-> ent.name, buf |-> idx,
          nofollow |-> TRUE]
    ELSE [ud |-> idx, opc |-> "openat", dirfd |-> fd, name |-> ent.name, buf |-> -1,
          nofollow |-> TRUE]

\* Faulty variant: neither operation asks not to follow a symlink.
MkOpFollow(idx, fd, ent) ==
    IF ent.dtype # "dir"
    THEN [ud |-> idx, opc |-> "statx", dirfd |-> fd, name |-> ent.name, buf |-> idx,
          nofollow |-> FALSE]
    ELSE [ud |-> NotU64(idx), opc |-> "openat", dirfd |-> fd, name |-> ent.name, buf |-> -1,
          nofollow |-> FALSE]

\* The operation enqueue builds for slot idx: a statx (AT_SYMLINK_NOFOLLOW)
\* with user_data idx for anything that is not listed as a directory, an
\* openat (O_NOFOLLOW) with user_data !idx for a directory.
MkOp(idx, fd, ent) ==
    IF ent.dtype # "dir"
    THEN [ud |-> idx, opc |-> "statx", dirfd |-> fd, name |-> ent.name, buf |-> idx,
          nofollow |-> TRUE]
    ELSE [ud |-> NotU64(idx), opc |-> "openat", dirfd |-> fd, name |-> ent.name, buf |-> -1,
          nofollow |-> TRUE]

\* Faulty variant: slot 0 is taken whatever the mask says.
AllocPushSlot0(mask, prm, q, fd, ent) ==
    IF Len(q) >= IO_URING_ENTRIES
    THEN [panic |-> TRUE, mask |-> mask, params |-> prm, sq |-> q]
    ELSE [panic |-> FALSE,
          mask |-> BitOr(mask, 0),
          params |-> [prm EXCEPT ![0] = [dirfd |-> fd, name |-> ent.name]],
          sq |-> Append(q, MkOp(0, fd, ent))]

\* enqueue, after the full-ring check: allocate the first free slot, take the
\* parameters, push the operation.  panic: an assert or unwrap fails.
AllocPush(mask, prm, q, fd, ent) ==
    LET buf_idx == TrailingOnes(mask)
    IN  IF buf_idx >= IO_URING_ENTRIES \/ Len(q) >= IO_URING_ENTRIES
        THEN [panic |-> TRUE, mask |-> mask, params |-> prm, sq |-> q]
        ELSE [panic |-> FALSE,
              mask |-> BitOr(mask, buf_idx),
              params |-> [prm EXCEPT ![buf_idx] = [dirfd |-> fd, name |-> ent.name]],
              sq |-> Append(q, MkOp(buf_idx, fd, ent))]

\* The slot a completion's user_data names: data if data >= 0, else !data.
SlotOf(data) == IF data >= 0 THEN data ELSE NotI64(data)

\* /proc/self/fd/<fd>: the directory the descriptor is open on, 0 = <unknown>.
DirPath(fd) == IF fd \in Fds THEN fdtable[fd] ELSE 0

\* Faulty variant: the include_empty policy is ignored.
KeepAlways(sz) == TRUE

\* if self.include_empty || sz != 0
Keep(sz) == include_empty \/ sz # 0

\* Faulty variant: the descriptor of a successful open is dropped on the floor.
Complete1NoSpawn(st, w, ent) ==
    LET data == AsI64(ent.ud)
        buf_idx == SlotOf(data)
    IN  IF st.panic \/ buf_idx >= IO_URING_ENTRIES THEN [st EXCEPT !.panic = TRUE]
        ELSE IF st.params[buf_idx] = None THEN [st EXCEPT !.panic = TRUE]
        ELSE
          LET prm == st.params[buf_idx]
              st1 == [st EXCEPT !.mask = BitXor(st.mask, buf_idx),
                                !.params[buf_idx] = None]
              sz == bufs[w][buf_idx]
          IN  IF ent.res >= 0
              THEN IF data >= 0
                   THEN IF Keep(sz)
                        THEN [st1 EXCEPT !.rec = st.rec (+) SetToBag({sz}),
                                         !.recorded = st.recorded (+) SetToBag({ent.node})]
                        ELSE st1
                   ELSE st1
              ELSE [st1 EXCEPT !.errs = st.errs (+) SetToBag({
                        [src |-> "complete", dir |-> DirPath(prm.dirfd),
                         name |-> prm.name, errno |-> -ent.res]})]

\* Faulty variant: a failed completion frees its slot without a report.
Complete1Silent(st, w, ent) ==
    LET data == AsI64(ent.ud)
        buf_idx == SlotOf(data)
    IN  IF st.panic \/ buf_idx >= IO_URING_ENTRIES THEN [st EXCEPT !.panic = TRUE]
        ELSE IF st.params[buf_idx] = None THEN [st EXCEPT !.panic = TRUE]
        ELSE
          LET st1 == [st EXCEPT !.mask = BitXor(st.mask, buf_idx),
                                !.params[buf_idx] = None]
              sz == bufs[w][buf_idx]
          IN  IF ent.res >= 0
              THEN IF data >= 0
                   THEN IF Keep(sz)
                        THEN [st1 EXCEPT !.rec = st.rec (+) SetToBag({sz}),
                                         !.recorded = st.recorded (+) SetToBag({ent.node})]
                        ELSE st1
                   ELSE [st1 EXCEPT !.spawn = st.spawn \cup {ent.res}]
              ELSE st1

\* submit_and_complete: the body of the loop over completions, for one entry.
Complete1(st, w, ent) ==
    LET data == AsI64(ent.ud)
        buf_idx == SlotOf(data)
    IN  IF st.panic \/ buf_idx >= IO_URING_ENTRIES THEN [st EXCEPT !.panic = TRUE]
        ELSE IF st.params[buf_idx] = None THEN [st EXCEPT !.panic = TRUE]
        ELSE
          LET prm == st.params[buf_idx]
              st1 == [st EXCEPT !.mask = BitXor(st.mask, buf_idx),
                                !.params[buf_idx] = None]
              sz == bufs[w][buf_idx]
          IN  IF ent.res >= 0
              THEN IF data >= 0
                   THEN IF Keep(sz)
                        THEN [st1 EXCEPT !.rec = st.rec (+) SetToBag({sz}),
                                         !.recorded = st.recorded (+) SetToBag({ent.node})]
                        ELSE st1
                   ELSE [st1 EXCEPT !.spawn = st.spawn \cup {ent.res}]
              ELSE [st1 EXCEPT !.errs = st.errs (+) SetToBag({
                        [src |-> "complete", dir |-> DirPath(prm.dirfd),
                         name |-> prm.name, errno |-> -ent.res]})]

RECURSIVE ProcCqes(_, _, _)
ProcCqes(st, w, q) ==
    IF q = << >> THEN st ELSE ProcCqes(Complete1(st, w, Head(q)), w, Tail(q))

\* submit_and_complete after its wait returned: every completion in the queue.
Completions(w) ==
    ProcCqes([panic |-> FALSE, mask |-> active_mask[w], params |-> params[w],
              rec |-> recorder[w], spawn |-> {}, errs |-> errs,
              recorded |-> recorded], w, cq[w])

\* Faulty variant: enqueue never flushes a full ring.
RingNeverFull(mask) == FALSE

\* if self.active_mask == BUF_MASK_ALL
RingFull(mask) == mask = BUF_MASK_ALL

\* Faulty variant: the final wait asks for one completion, not for all of them.
PendingsOne(mask) == IF mask = 0 THEN 0 ELSE 1

\* let pendings = self.active_mask.count_ones()
Pendings(mask) == CountOnes(mask)

\* Faulty variant: submit without waiting.
WaitReturnsAtOnce(w) == TRUE

\* self.uring.submit_and_wait(want) returns once `want` completions are queued.
WaitReturned(w) == Len(cq[w]) >= want[w]

FdTask(fd) == [k |-> "fd", fd |-> fd, n |-> 0]
SeqToSet(q) == { q[i] : i \in 1..Len(q) }

Abort ==
    /\ main' = "aborted"
    /\ UNCHANGED << inputs, expect_dev_id, fdtable, fdpos, tasks, errs,
                    taskv, ringv, histv, ghostv >>

Panic ==
    /\ main' = "panicked"
    /\ UNCHANGED << inputs, expect_dev_id, fdtable, fdpos, tasks, errs,
                    taskv, ringv, histv, ghostv >>

\* Faulty variant: a thread blocked in submit_and_wait takes up another job.
RunsJobsInWait(w) == pc[w] \in {"idle", "full", "drain"}

\* thread.run(): a pool thread takes a job from the queue when it is not
\* inside one (traverse_dir never yields to the pool).
RunsJobs(w) == pc[w] = "idle"

\* A pool thread picks a spawned task: WORKER.with(|w| w.borrow_mut() ...)
\* panics if the worker is borrowed already (the panic surfaces from
\* pool.scope); else traverse_dir(fd, s) begins,
\* let mut dirent_buf = std::mem::take(&mut self.dirent_buf).
StartTask(w) ==
    /\ main = "scope" /\ variant = "uring" /\ RunsJobs(w)
    /\ \E t \in tasks :
        /\ t.k = "fd"
        /\ IF pc[w] # "idle" THEN Panic
           ELSE /\ tasks' = tasks \ {t}
                /\ dirfd' = [dirfd EXCEPT ![w] = t.fd]
                /\ visited' = visited (+) SetToBag({fdtable[t.fd]})
                /\ local_buf' = [local_buf EXCEPT ![w] = dirent_buf[w]]
                /\ dirent_buf' = [dirent_buf EXCEPT ![w] = 0]
                /\ pc' = [pc EXCEPT ![w] = "list"]
                /\ einval_cap' = [einval_cap EXCEPT ![w] = 0]
                /\ UNCHANGED << inputs, main, expect_dev_id, fdtable, fdpos, errs,
                                iter, ringv, histv, recorded, full_waits, rec_by >>

\* What one getdents64 call of the task's RawDir may return.
NextBatch(w) ==
    IF DirPath(dirfd[w]) = 0 THEN { [err |-> EBADF, n |-> 0] }
    ELSE Getdents(fdtable[dirfd[w]], fdpos[dirfd[w]], local_buf[w])

\* iter.next() on an empty buffer returns entries.
ReadDirEntries(w) ==
    /\ main = "scope" /\ pc[w] = "list"
    /\ \E r \in NextBatch(w) :
        /\ r.err = 0 /\ r.n > 0
        /\ iter' = [iter EXCEPT ![w] =
              SubSeq(Listing(fdtable[dirfd[w]]), fdpos[dirfd[w]] + 1, fdpos[dirfd[w]] + r.n)]
        /\ fdpos' = [fdpos EXCEPT ![dirfd[w]] = @ + r.n]
    /\ pc' = [pc EXCEPT ![w] = "enq"]
    /\ UNCHANGED << inputs, main, expect_dev_id, fdtable, tasks, errs, dirfd,
                    local_buf, dirent_buf, ringv, histv, ghostv >>

\* Err(Errno::INVAL) => break 'resize; the buffer is reserved and the loop
\* starts over with a new RawDir on the same descriptor.
ReadDirResize(w) ==
    /\ main = "scope" /\ pc[w] = "list"
    /\ \E r \in NextBatch(w) : r.err = EINVAL
    /\ local_buf' = [local_buf EXCEPT ![w] = Resize(local_buf[w], dirent_buf[w])]
    /\ einval_cap' = [einval_cap EXCEPT ![w] = local_buf[w]]
    /\ UNCHANGED << inputs, procv, pc, dirfd, iter, dirent_buf, ringv, histv,
                    recorded, visited, full_waits, rec_by >>

\* Faulty variant: a listing error ends the enumeration without a report.
ListingReportNone(w, err) == errs

\* Err(err) => eprintln!("fail to traverse {:?}: {}", dirfd, err): the
\* reported errors after a listing call that returned err (0: none).  The
\* message shows the descriptor; the model names the directory it is open on.
ListingReport(w, err) ==
    IF err = 0 THEN errs
    ELSE errs (+) SetToBag({[src |-> "traverse", dir |-> DirPath(dirfd[w]),
                             name |-> "", errno |-> err]})

\* The end of the listing (None) or another error (reported): break 'done,
\* the buffer goes back to the worker and the task forces its completions.
ReadDirEnd(w) ==
    /\ main = "scope" /\ pc[w] = "list"
    /\ \E r \in NextBatch(w) :
        /\ r.n = 0 /\ r.err # EINVAL
        /\ errs' = ListingReport(w, r.err)
    /\ dirent_buf' = [dirent_buf EXCEPT ![w] = local_buf[w]]
    /\ local_buf' = [local_buf EXCEPT ![w] = 0]
    /\ IF Pendings(active_mask[w]) # 0
       THEN /\ kern' = [kern EXCEPT ![w] = @ \cup SeqToSet(sq[w])]
            /\ sq' = [sq EXCEPT ![w] = << >>]
            /\ want' = [want EXCEPT ![w] = Pendings(active_mask[w])]
            /\ pc' = [pc EXCEPT ![w] = "drain"]
            /\ UNCHANGED << fdtable, fdpos, dirfd >>
       ELSE /\ fdtable' = [fdtable EXCEPT ![dirfd[w]] = 0]
            /\ fdpos' = [fdpos EXCEPT ![dirfd[w]] = 0]
            /\ dirfd' = [dirfd EXCEPT ![w] = 0]
            /\ pc' = [pc EXCEPT ![w] = "idle"]
            /\ UNCHANGED << kern, sq, want >>
    /\ UNCHANGED << inputs, main, expect_dev_id, tasks, iter, active_mask,
                    params, bufs, cq, histv, ghostv >>

IsDot(ent) == ent.name = "." \/ ent.name = ".."

\* After an enqueue call returned: the next buffered entry, or, once the
\* RawDir buffer is empty, self.uring.submit() and the next getdents64.
AfterEnqueue(w, q) ==
    /\ iter' = [iter EXCEPT ![w] = Tail(@)]
    /\ IF Tail(iter[w]) = << >>
       THEN /\ kern' = [kern EXCEPT ![w] = @ \cup SeqToSet(q)]
            /\ sq' = [sq EXCEPT ![w] = << >>]
            /\ pc' = [pc EXCEPT ![w] = "list"]
       ELSE /\ sq' = [sq EXCEPT ![w] = q]
            /\ pc' = [pc EXCEPT ![w] = "enq"]
            /\ UNCHANGED kern

\* enqueue of "." or "..": early return.
EnqueueSkip(w) ==
    /\ main = "scope" /\ pc[w] = "enq"
    /\ IsDot(Head(iter[w]))
    /\ AfterEnqueue(w, sq[w])
    /\ UNCHANGED << inputs, procv, dirfd, local_buf, dirent_buf, active_mask,
                    params, bufs, cq, want, histv, ghostv >>

\* enqueue past its full-ring check: the ring was not full, or the wait of
\* submit_and_complete(1) is over (the mask is not looked at again).
EnqueueSlot(w) ==
    /\ main = "scope"
    /\ \/ pc[w] = "enq" /\ ~IsDot(Head(iter[w])) /\ ~RingFull(active_mask[w])
       \/ pc[w] = "alloc"
    /\ LET a == AllocPush(active_mask[w], params[w], sq[w], dirfd[w], Head(iter[w]))
       IN  IF a.panic THEN Abort
           ELSE /\ active_mask' = [active_mask EXCEPT ![w] = a.mask]
                /\ params' = [params EXCEPT ![w] = a.params]
                /\ AfterEnqueue(w, a.sq)
                /\ UNCHANGED << inputs, procv, dirfd, local_buf, dirent_buf,
                                bufs, cq, want, histv, ghostv >>

\* enqueue with the ring full: submit_and_complete(1) submits the queue and
\* blocks in submit_and_wait(1).
EnqueueFull(w) ==
    /\ main = "scope" /\ pc[w] = "enq"
    /\ ~IsDot(Head(iter[w]))
    /\ RingFull(active_mask[w])
    /\ kern' = [kern EXCEPT ![w] = @ \cup SeqToSet(sq[w])]
    /\ sq' = [sq EXCEPT ![w] = << >>]
    /\ want' = [want EXCEPT ![w] = 1]
    /\ pc' = [pc EXCEPT ![w] = "full"]
    /\ full_waits' = full_waits + 1
    /\ UNCHANGED << inputs, procv, dirfd, iter, local_buf, dirent_buf,
                    active_mask, params, bufs, cq, histv, recorded, visited,
                    einval_cap, rec_by >>

\* The wait of a full enqueue returned: submit_and_complete(1) processes
\* the completions and returns into enqueue, which goes on to allocate.
CompleteFull(w) ==
    /\ main = "scope" /\ pc[w] = "full"
    /\ WaitReturned(w)
    /\ LET st == Completions(w)
       IN  IF st.panic THEN Abort
           ELSE /\ active_mask' = [active_mask EXCEPT ![w] = st.mask]
                /\ params' = [params EXCEPT ![w] = st.params]
                /\ recorder' = [recorder EXCEPT ![w] = st.rec]
                /\ tasks' = tasks \cup { FdTask(fd) : fd \in st.spawn }
                /\ errs' = st.errs
                /\ recorded' = st.recorded
                /\ rec_by' = IF st.rec # recorder[w] THEN rec_by \cup {w} ELSE rec_by
                /\ cq' = [cq EXCEPT ![w] = << >>]
                /\ want' = [want EXCEPT ![w] = 0]
                /\ pc' = [pc EXCEPT ![w] = "alloc"]
                /\ UNCHANGED << inputs, main, expect_dev_id, fdtable, fdpos,
                                dirfd, iter, local_buf, dirent_buf, bufs, sq, kern,
                                retired, hist, out, visited, full_waits,
                                einval_cap >>

\* The wait of the final submit_and_complete(pendings) returned: the
\* completions are processed, traverse_dir returns and drops its OwnedFd.
TaskDrain(w) ==
    /\ main = "scope" /\ pc[w] = "drain"
    /\ WaitReturned(w)
    /\ LET st == Completions(w)
       IN  IF st.panic THEN Abort
           ELSE /\ active_mask' = [active_mask EXCEPT ![w] = st.mask]
                /\ params' = [params EXCEPT ![w] = st.params]
                /\ recorder' = [recorder EXCEPT ![w] = st.rec]
                /\ tasks' = tasks \cup { FdTask(fd) : fd \in st.spawn }
                /\ errs' = st.errs
                /\ recorded' = st.recorded
                /\ rec_by' = IF st.rec # recorder[w] THEN rec_by \cup {w} ELSE rec_by
                /\ cq' = [cq EXCEPT ![w] = << >>]
                /\ want' = [want EXCEPT ![w] = 0]
                /\ fdtable' = [fdtable EXCEPT ![dirfd[w]] = 0]
                /\ fdpos' = [fdpos EXCEPT ![dirfd[w]] = 0]
                /\ dirfd' = [dirfd EXCEPT ![w] = 0]
                /\ pc' = [pc EXCEPT ![w] = "idle"]
                /\ UNCHANGED << inputs, main, expect_dev_id, iter, local_buf,
                                dirent_buf, bufs, sq, kern,
                                retired, hist, out, visited, full_waits,
                                einval_cap >>

\* The kernel finishes one submitted operation of worker w's ring and posts
\* its completion; a statx fills the slot's buffer, an openat installs the
\* new descriptor.  The program reads user_data and result of an entry;
\* node and op are history (the entry named, the operation completed).
KernelComplete(w) ==
    /\ main = "scope"
    /\ \E op \in kern[w] :
        LET r == IF op.opc = "statx" THEN KStatx(fdtable, op) ELSE KOpenat(fdtable, op)
        IN  /\ kern' = [kern EXCEPT ![w] = @ \ {op}]
            /\ cq' = [cq EXCEPT ![w] = Append(@, [ud |-> op.ud, res |-> r.res, node |-> r.node, op |-> op])]
            /\ bufs' = IF op.opc = "statx" /\ r.res >= 0
                       THEN [bufs EXCEPT ![w][op.buf] = tree[r.at].size]
                       ELSE bufs
            /\ fdtable' = IF op.opc = "openat" /\ r.res >= 0
                          THEN [fdtable EXCEPT ![r.res] = r.at]
                          ELSE fdtable
    /\ UNCHANGED << inputs, main, expect_dev_id, fdpos, tasks, errs, taskv,
                    active_mask, params, sq, want, histv, ghostv >>

\* flags.set(OFlags::NOFOLLOW, !cli.follow_root); openat(CWD, &cli.root, ..):
\* the errno, 0 when the root directory is opened.
RootOpen ==
    IF tree[1].linked /\ ~follow_root THEN ELOOP
    ELSE IF tree[1].fail THEN EACCES
    ELSE 0

\* main: openat(CWD, root, O_RDONLY|O_DIRECTORY|O_CLOEXEC[|O_NOFOLLOW]); on an
\* error the process prints it and exits with status 1.  Otherwise the pool
\* is built and pool.scope runs traverse_dir(rootfd) on one of its threads.
MainOpenRoot ==
    /\ main = "start" /\ variant = "uring"
    /\ IF RootOpen # 0
       THEN /\ main' = "exit1"
            /\ errs' = errs (+) SetToBag({[src |-> "main", dir |-> 0,
                                           name |-> tree[1].name, errno |-> RootOpen]})
            /\ UNCHANGED << fdtable, tasks >>
       ELSE /\ main' = "scope"
            /\ fdtable' = [fdtable EXCEPT ![FreeFd(fdtable)] = 1]
            /\ tasks' = { FdTask(FreeFd(fdtable)) }
            /\ errs' = errs
    /\ UNCHANGED << inputs, expect_dev_id, fdpos, taskv, ringv, histv, ghostv >>

(***************************************************************************)
(* lib.rs: dir_size_histogram.                                             *)
(***************************************************************************)
\* The error a path is reported with through Config::on_error.
OnError(n, errno) ==
    [src |-> "on_error", dir |-> tree[n].parent, name |-> tree[n].name, errno |-> errno]

\* Faulty variant: without device ids the filter is dropped and the run goes on.
ExpectDevIdLenient ==
    IF ~one_file_system \/ ~unix THEN [err |-> 0, dev |-> 0]
    ELSE IF tree[1].fail THEN [err |-> EACCES, dev |-> 0]
    ELSE [err |-> 0, dev |-> tree[1].dev]

\* config.one_file_system.then(|| ...).transpose(): [err, dev], dev 0 = None.
ExpectDevId ==
    IF ~one_file_system THEN [err |-> 0, dev |-> 0]
    ELSE IF ~unix THEN [err |-> EUNSUPPORTED, dev |-> 0]
    ELSE IF tree[1].fail THEN [err |-> EACCES, dev |-> 0]
    ELSE [err |-> 0, dev |-> tree[1].dev]

DirTask(n) == [k |-> "dir", fd |-> 0, n |-> n]
EntTask(n) == [k |-> "ent", fd |-> 0, n |-> n]

\* dir_size_histogram up to pool.scope: `.map_err(emit)?` returns Err(())
\* after reporting; otherwise the scope runs traverse_dir(root_path).
LibStart ==
    /\ main = "start" /\ variant = "lib"
    /\ IF ExpectDevId.err # 0
       THEN /\ main' = "failed"
            /\ errs' = errs (+) SetToBag({OnError(1, ExpectDevId.err)})
            /\ UNCHANGED << expect_dev_id, tasks >>
       ELSE /\ main' = "scope"
            /\ expect_dev_id' = ExpectDevId.dev
            /\ tasks' = { DirTask(1) }
            /\ errs' = errs
    /\ UNCHANGED << inputs, fdtable, fdpos, taskv, ringv, histv, ghostv >>

\* The children std::fs::read_dir yields before the listing fails (all of
\* them when it does not): child j sits at listing position j + 1.
LibYielded(n) ==
    { Children(n)[j] : j \in { i \in 1..Len(Children(n)) :
                                 tree[n].lerr = -1 \/ i + 1 < tree[n].lerr } }

LibListFails(n) == tree[n].lerr # -1 /\ tree[n].lerr <= Len(Children(n)) + 2

\* traverse_dir(s, path, config, expect_dev_id): read_dir, then one spawned
\* closure per entry; an entry error is reported and iteration goes on.
LibTraverseDir(w) ==
    /\ main = "scope" /\ variant = "lib" /\ pc[w] = "idle"
    /\ \E t \in tasks :
        /\ t.k = "dir"
        /\ visited' = visited (+) SetToBag({t.n})
        /\ IF tree[t.n].fail
           THEN /\ errs' = errs (+) SetToBag({OnError(t.n, EACCES)})
                /\ tasks' = tasks \ {t}
           ELSE /\ errs' = IF LibListFails(t.n)
                           THEN errs (+) SetToBag({OnError(t.n, EIO)}) ELSE errs
                /\ tasks' = (tasks \ {t}) \cup { EntTask(c) : c \in LibYielded(t.n) }
    /\ UNCHANGED << inputs, main, expect_dev_id, fdtable, fdpos, taskv, ringv,
                    histv, recorded, full_waits, einval_cap, rec_by >>

\* The closure spawned for entry n: "skip", "record", "spawn" or "error".
LibEntryOutcome(n) ==
    LET statFails == tree[n].fail /\ tree[n].kind # "dir"
    IN  IF expect_dev_id # 0 /\ statFails THEN "error"
        ELSE IF expect_dev_id # 0 /\ tree[n].dev # expect_dev_id THEN "skip"
        ELSE IF expect_dev_id = 0 /\ tree[n].dtype = "unknown" /\ statFails THEN "error"
        ELSE IF tree[n].kind = "dir" THEN "spawn"
        ELSE IF statFails THEN "error"
        ELSE IF tree[n].size = 0 /\ ~include_empty THEN "skip"
        ELSE "record"

LibEntry(w) ==
    /\ main = "scope" /\ variant = "lib" /\ pc[w] = "idle"
    /\ \E t \in tasks :
        /\ t.k = "ent"
        /\ LET o == LibEntryOutcome(t.n)
           IN  /\ tasks' = (tasks \ {t}) \cup (IF o = "spawn" THEN {DirTask(t.n)} ELSE {})
               /\ errs' = IF o = "error" THEN errs (+) SetToBag({OnError(t.n, EACCES)})
                          ELSE errs
               /\ recorder' = IF o = "record"
                              THEN [recorder EXCEPT ![w] = @ (+) SetToBag({tree[t.n].size})]
                              ELSE recorder
               /\ recorded' = IF o = "record" THEN recorded (+) SetToBag({t.n})
                              ELSE recorded
               /\ rec_by' = IF o = "record" THEN rec_by \cup {w} ELSE rec_by
    /\ UNCHANGED << inputs, main, expect_dev_id, fdtable, fdpos, taskv, ringv,
                    retired, hist, out, visited, full_waits, einval_cap >>

(***************************************************************************)
(* Shutdown, common to both: the scope ends, the pool's threads exit and   *)
(* drop their worker state, the histogram is refreshed and read.           *)
(***************************************************************************)
\* pool.scope returns: every spawned task has run to its end.
ScopeDone == tasks = {} /\ \A w \in Workers : pc[w] = "idle"

ScopeEnd ==
    /\ main = "scope"
    /\ ScopeDone
    /\ main' = "term"
    /\ UNCHANGED << inputs, expect_dev_id, fdtable, fdpos, tasks, errs, taskv,
                    ringv, histv, ghostv >>

\* Faulty variant: the incoming counts replace the ones already there.
MergeOverwrite(a, b) == b

\* Recorded sizes joining the histogram: addition of counts.
Merge(a, b) == a (+) b

\* A pool thread leaves thread.run(): its Worker (main.rs, impl Drop: abort
\* when active_mask != 0) or its Recorder (lib.rs) is dropped, and a dropped
\* recorder hands its sizes over to the histogram.
WorkerDrop(w) ==
    /\ main = "term" /\ pc[w] = "idle"
    /\ IF variant = "uring" /\ active_mask[w] # 0
       THEN Abort
       ELSE /\ pc' = [pc EXCEPT ![w] = "dead"]
            /\ retired' = Merge(retired, recorder[w])
            /\ recorder' = [recorder EXCEPT ![w] = EmptyBag]
            /\ UNCHANGED << inputs, procv, dirfd, iter, local_buf, dirent_buf,
                            ringv, hist, out, ghostv >>

\* Faulty variant: the histogram is refreshed without joining the pool threads.
JoinedNoWait == TRUE

\* build_scoped returns: the pool threads are joined.
Joined == \A w \in Workers : pc[w] = "dead"

\* hist.refresh() / hist.refresh_timeout(Duration::ZERO): what the retired
\* recorders handed over is merged into the histogram.
Refresh ==
    /\ main = "term"
    /\ Joined
    /\ hist' = Merge(hist, retired)
    /\ retired' = EmptyBag
    /\ main' = "refreshed"
    /\ UNCHANGED << inputs, expect_dev_id, fdtable, fdpos, tasks, errs, taskv,
                    ringv, recorder, out, ghostv >>

\* Output { count: hist.len(), .. }
Query ==
    /\ main = "refreshed"
    /\ out' = BagCardinality(hist)
    /\ main' = "done"
    /\ UNCHANGED << inputs, expect_dev_id, fdtable, fdpos, tasks, errs, taskv,
                    ringv, recorder, retired, hist, ghostv >>

Next ==
    \/ MainOpenRoot
    \/ LibStart
    \/ \E w \in Workers :
        \/ StartTask(w)
        \/ ReadDirEntries(w)
        \/ ReadDirResize(w)
        \/ ReadDirEnd(w)
        \/ EnqueueSkip(w)
        \/ EnqueueSlot(w)
        \/ EnqueueFull(w)
        \/ CompleteFull(w)
        \/ TaskDrain(w)
        \/ KernelComplete(w)
        \/ LibTraverseDir(w)
        \/ LibEntry(w)
        \/ WorkerDrop(w)
    \/ ScopeEnd
    \/ Refresh
    \/ Query

Spec == Init /\ [][Next]_vars

\* The pool threads, the kernel and the main thread keep running: a step
\* that can be taken is eventually taken.
FairSpec == Spec /\ WF_vars(Next)

(***************************************************************************)
(* What a traversal of tree T is expected to reach and record, computed    *)
(* from the tree alone (no scheduling involved).                           *)
(***************************************************************************)
NodesOf(T) == 1..Len(T)

\* The entry is typed as a directory: by d_type in main.rs, by
\* DirEntry::file_type / Metadata::file_type in lib.rs.
ListedDir(T, n) == IF variant = "uring" THEN T[n].dtype = "dir" ELSE T[n].kind = "dir"

\* The children of d a listing returns before it fails.
YieldedIn(T, d) ==
    LET ch == SelectSeq([i \in NodesOf(T) |-> i], LAMBDA i : T[i].parent = d)
    IN  { ch[j] : j \in { i \in 1..Len(ch) : T[d].lerr = -1 \/ i + 1 < T[d].lerr } }

\* The device filter lets n through (lib.rs only: main.rs has none).
DevOk(T, n) == (variant = "lib" /\ one_file_system) => T[n].dev = T[1].dev

\* Directory n is opened and listed.
RECURSIVE OpenedIn(_, _)
OpenedIn(T, n) ==
    IF n = 1 THEN ~T[1].fail
    ELSE /\ OpenedIn(T, T[n].parent)
         /\ n \in YieldedIn(T, T[n].parent)
         /\ ListedDir(T, n) /\ T[n].kind = "dir" /\ ~T[n].fail
         /\ DevOk(T, n)

\* Entry n is reached, is not typed as a directory, and can be stat'ed.
ReachedFile(T, n) ==
    /\ n # 1
    /\ OpenedIn(T, T[n].parent)
    /\ n \in YieldedIn(T, T[n].parent)
    /\ ~ListedDir(T, n)
    /\ ~(T[n].fail /\ T[n].kind # "dir")
    /\ DevOk(T, n)

ExpectedIn(T, n) == ReachedFile(T, n) /\ (include_empty \/ T[n].size # 0)

ExpectedSet(T) == { n \in NodesOf(T) : ExpectedIn(T, n) }

RECURSIVE SizesOf(_, _)
SizesOf(T, S) ==
    IF S = {} THEN EmptyBag
    ELSE LET n == CHOOSE x \in S : TRUE
         IN  SetToBag({T[n].size}) (+) SizesOf(T, S \ {n})

Count(n) == IF n \in BagToSet(recorded) THEN CopiesIn(n, recorded) ELSE 0

RegularKept == { n \in Nodes : tree[n].kind = "file" /\ (include_empty \/ tree[n].size # 0) }

NoOversize == \A n \in Nodes : tree[n].reclen <= INIT_DIR_BUF_LEN

Overfull == \E d \in Nodes : Cardinality({ n \in Nodes : tree[n].parent = d }) > IO_URING_ENTRIES

WaitSatisfiable ==
    \A w \in Workers :
        pc[w] \in {"full", "drain"} => Len(cq[w]) + Cardinality(kern[w]) >= want[w]

\* C2: with a directory larger than the ring, no wait is unsatisfiable,
\* main ends, and each expected entry is then recorded exactly once.
C2_OverfullDirectoryCompletes ==
    /\ []((variant = "uring" /\ Overfull /\ NoOversize) => WaitSatisfiable)
    /\ <>((variant = "uring" /\ Overfull /\ NoOversize /\ RootOpen = 0) => main = "done")
    /\ []((variant = "uring" /\ Overfull /\ NoOversize /\ main = "done") =>
            \A n \in Nodes : Count(n) = IF ExpectedIn(tree, n) THEN 1 ELSE 0)

\* Four files in one directory, a ring of fewer slots: the ring did fill,
\* the run ended, four sizes were recorded.
C2_Witness ==
    /\ variant = "uring" /\ tree = FlatTree /\ Overfull /\ include_empty
    /\ main = "done" /\ full_waits >= 1 /\ out = 4

(***************************************************************************)
(* C3.  As claimed: when getdents64 reports EINVAL (buffer too small) the  *)
(* task retries with a larger buffer, and the enumeration comes to its     *)
(* end, so the run finishes with every listed entry of the directory       *)
(* handled once.  Refuted by main.rs:254: the capacity doubled is that of  *)
(* the vector std::mem::take left in self.dirent_buf (0), so reserve(0)    *)
(* changes nothing and the same call fails with EINVAL for ever.           *)
(***************************************************************************)
RetryBufferGrew ==
    \A w \in Workers : einval_cap[w] # 0 => local_buf[w] > einval_cap[w]

\* C3 (as claimed): after EINVAL the retry has a larger buffer, the run
\* ends, and every expected entry is recorded exactly once.
C3_ResizeThenEnumerateAll ==
    /\ [](variant = "uring" => RetryBufferGrew)
    /\ <>((variant = "uring" /\ RootOpen = 0) => main = "done")
    /\ []((variant = "uring" /\ main = "done") =>
            \A n \in Nodes : Count(n) = IF ExpectedIn(tree, n) THEN 1 ELSE 0)

(***************************************************************************)
(* C4.  Exactly one subdirectory that cannot be opened, or whose listing   *)
(* fails at its first call, and no other failure in the tree: under        *)
(* FairSpec the run reaches the end of main; every entry outside that      *)
(* subdirectory is recorded exactly as the same tree without the failure   *)
(* would have it, nothing under it is recorded, and exactly one error is   *)
(* reported, which names that subdirectory.                                *)
(***************************************************************************)
Unreadable(d) == d # 1 /\ tree[d].kind = "dir" /\ (tree[d].fail \/ tree[d].lerr = 0)

OneUnreadable ==
    /\ Cardinality({ d \in Nodes : Unreadable(d) }) = 1
    /\ \A n \in Nodes : ~Unreadable(n) => (~tree[n].fail /\ tree[n].lerr = -1)
    /\ NoOversize
    /\ one_file_system => unix

TheUnreadable == CHOOSE d \in Nodes : Unreadable(d)

Healed == [tree EXCEPT ![TheUnreadable].fail = FALSE, ![TheUnreadable].lerr = -1]

RECURSIVE Under(_, _)
Under(n, d) == n # 1 /\ (tree[n].parent = d \/ Under(tree[n].parent, d))

ErrNames(e, d) ==
    \/ e.dir = tree[d].parent /\ e.name = tree[d].name
    \/ e.src = "traverse" /\ e.dir = d

SiblingsUnaffected ==
    /\ \A n \in Nodes \ {TheUnreadable} :
          Count(n) = IF Under(n, TheUnreadable) THEN 0
                     ELSE IF ExpectedIn(Healed, n) THEN 1 ELSE 0
    /\ BagCardinality(errs) = 1
    /\ \A e \in BagToSet(errs) : ErrNames(e, TheUnreadable)

\* C4: with one unreadable subdirectory the run ends, siblings are recorded
\* as without the failure, nothing under it is, and one error names it.
C4_OneUnreadableSubdirectory ==
    /\ <>(OneUnreadable => main = "done")
    /\ []((OneUnreadable /\ main = "done") => SiblingsUnaffected)

\* d1 unreadable: y in the sibling d2 and f are recorded, x under d1 is
\* not, one error was printed.
C4_Witness ==
    /\ tree = UnreadableTree /\ variant = "uring" /\ include_empty
    /\ main = "done"
    /\ Count(7) = 1 /\ Count(4) = 1 /\ Count(5) = 0
    /\ BagCardinality(errs) = 1

(***************************************************************************)
(* C5.  As claimed: with one_file_system set, nothing on a device other    *)
(* than the root's is recorded and no directory on another device is       *)
(* traversed.  lib.rs does this (lib.rs:84-92); main.rs accepts            *)
(* --one-file-system and never looks at it (main.rs:225, FIXME), so the    *)
(* io_uring engine refutes it.                                             *)
(***************************************************************************)
\* C5 (as claimed): with one_file_system set, no entry on another device
\* is recorded and no directory on another device is traversed.
C5_OtherDeviceExcluded ==
    one_file_system =>
        \A n \in Nodes : tree[n].dev # tree[1].dev =>
            (Count(n) = 0 /\ n \notin BagToSet(visited))

(***************************************************************************)
(* C6.  As claimed: lib.rs, filter requested, no device ids on the         *)
(* platform: the run does not fail.  Refuted: `.map_err(emit)?` returns    *)
(* Err(()) from dir_size_histogram.                                        *)
(***************************************************************************)
NoDevicePlatform == variant = "lib" /\ one_file_system /\ ~unix

Pending(w) == kern[w] \cup SeqToSet(sq[w])

\* C7: no descriptor or slot name is released while an operation that
\* refers to it is pending.
C7_NoReleaseWhilePending ==
    \A w \in Workers :
        /\ \A i \in Slots : Bit(active_mask[w], i) = 1 =>
              /\ params[w][i] # None
              /\ params[w][i].dirfd = dirfd[w]
              /\ dirfd[w] \in Fds /\ fdtable[dirfd[w]] # 0
        /\ \A op \in Pending(w) :
              /\ op.dirfd = dirfd[w]
              /\ dirfd[w] \in Fds /\ fdtable[dirfd[w]] # 0
              /\ params[w][SlotOf(AsI64(op.ud))] = [dirfd |-> op.dirfd, name |-> op.name]
        /\ dirfd[w] = 0 =>
              (active_mask[w] = 0 /\ Pending(w) = {} /\ cq[w] = << >>)

\* A task that had operations in flight has dropped its descriptor.
C7_Witness ==
    \E w \in Workers :
        /\ variant = "uring" /\ main = "scope"
        /\ pc[w] = "idle" /\ dirfd[w] = 0 /\ w \in rec_by
        /\ \E f \in Fds : fdtable[f] # 0

(***************************************************************************)
(* C8.  main.rs: once the scope has ended (the pool is torn down) every    *)
(* worker's occupancy mask is zero, and the process never aborts: neither  *)
(* Worker::drop nor a panic under AbortOnPanic is reached.                 *)
(***************************************************************************)
\* C8: the occupancy masks are zero at teardown and the process never aborts.
C8_RingEmptyAtTeardown ==
    /\ main # "aborted"
    /\ main \in {"term", "refreshed", "done"} =>
          \A w \in Workers : active_mask[w] = 0 /\ kern[w] = {} /\ sq[w] = << >>

C8_Witness ==
    /\ variant = "uring" /\ main = "term"
    /\ \E w \in Workers : pc[w] = "dead" /\ w \in rec_by
    /\ full_waits >= 1

(***************************************************************************)
(* C9.  Once the histogram has been refreshed, no task is left, every      *)
(* ring is drained, every worker thread is gone with its recorder, and     *)
(* the histogram holds every recorded size; the count that is read is the  *)
(* number of sizes recorded.                                               *)
(***************************************************************************)
SizeCount(sz) ==
    LET hit == { n \in Nodes : tree[n].size = sz /\ Count(n) > 0 }
        RECURSIVE Sum(_)
        Sum(S) == IF S = {} THEN 0
                  ELSE LET n == CHOOSE x \in S : TRUE IN Count(n) + Sum(S \ {n})
    IN  Sum(hit)

AllSizes == { tree[n].size : n \in Nodes }

\* C9: the histogram is refreshed and read only after every task, ring and
\* recorder is gone, and it holds every recorded size.
C9_QueriedAfterRetirement ==
    /\ main \in {"refreshed", "done"} =>
          /\ tasks = {}
          /\ \A w \in Workers :
                /\ pc[w] = "dead" /\ recorder[w] = EmptyBag
                /\ active_mask[w] = 0 /\ Pending(w) = {} /\ cq[w] = << >>
          /\ retired = EmptyBag
          /\ BagToSet(hist) \subseteq AllSizes
          /\ \A sz \in AllSizes : CopiesIn(sz, hist) = SizeCount(sz)
    /\ main = "done" => out = BagCardinality(recorded)

C9_Witness ==
    /\ main = "done" /\ variant = "lib" /\ tree = NestTree
    /\ out = 4 /\ Cardinality(rec_by) = 2

(***************************************************************************)
(* C10. The histogram at the end of main is a function of the inputs (the  *)
(* tree and the flags) alone: whatever the order of completions, whichever *)
(* worker ran which task, in whatever order the recorders were merged.     *)
(***************************************************************************)
\* C10: the final histogram depends on the inputs only, not on scheduling.
C10_FinalHistogramDeterministic ==
    main = "done" => hist = SizesOf(tree, ExpectedSet(tree))

\* Both workers recorded, and a ring was flushed while full.
C10_Witness ==
    /\ main = "done" /\ variant = "uring" /\ tree = NestTree /\ include_empty
    /\ Cardinality(rec_by) = 2 /\ full_waits >= 1
    /\ BagCardinality(hist) = 4

(***************************************************************************)
(* C11. Symlinks met during the traversal are never followed: a successful *)
(* open always names a real directory, a lookup returns the attributes of  *)
(* the entry itself, every directory is traversed at most once, and so the *)
(* run ends on a tree with a symlink cycle.  The root path is followed     *)
(* through a symlink only when follow_root is set: otherwise the open of   *)
(* the root fails and nothing is traversed.                                *)
(***************************************************************************)
Cqes(w) == SeqToSet(cq[w])

DeepLinksNotFollowed ==
    /\ \A w \in Workers : \A e \in Cqes(w) :
          /\ (e.op.opc = "openat" /\ e.res >= 0) =>
                (tree[e.node].kind = "dir" /\ fdtable[e.res] = e.node)
          /\ (e.op.opc = "statx" /\ e.res >= 0) => bufs[w][e.op.buf] = tree[e.node].size
    /\ \A t \in tasks : t.k \in {"dir", "ent"} =>
          (t.k = "dir" => tree[t.n].kind = "dir")
    /\ \A d \in BagToSet(visited) : tree[d].kind = "dir" /\ CopiesIn(d, visited) = 1
    /\ \A n \in BagToSet(recorded) : CopiesIn(n, recorded) = 1

RootFollowedOnlyOnRequest ==
    (variant = "uring" /\ tree[1].linked /\ ~follow_root) =>
        /\ main \in {"start", "exit1"}
        /\ visited = EmptyBag /\ tasks = {}
        /\ \A f \in Fds : fdtable[f] = 0

\* C11: no symlink below the root is followed, each directory is traversed
\* at most once, a run over a tree with symlinks to directories ends, and
\* a symlinked root is opened only with follow_root.
C11_SymlinksNeverFollowed ==
    /\ [](DeepLinksNotFollowed /\ RootFollowedOnlyOnRequest)
    /\ <>(HasDirLink(tree) => main \in {"done", "exit1", "failed"})

\* The symlinked root was opened with follow_root; below it the directory
\* replaced by a symlink was refused with ELOOP, the plain symlink was
\* recorded with its own size, the root was traversed once, the run ended.
C11_Witness ==
    /\ variant = "uring" /\ tree = LinkTree /\ follow_root
    /\ main = "done"
    /\ \E e \in BagToSet(errs) : e.name = "r" /\ e.errno = ELOOP
    /\ CopiesIn(1, visited) = 1 /\ Count(2) = 0 /\ Count(3) = 1
    /\ CopiesIn(7, hist) = 1

(***************************************************************************)
(* C12. As claimed: after getdents64 reported EINVAL, the buffer the retry *)
(* uses has at least twice the capacity of the buffer of the failed call.  *)
(* Refuted by main.rs:254 (see C3): the capacity that is doubled is that   *)
(* of the emptied self.dirent_buf, 0, and the retry has the same 4096      *)
(* bytes.                                                                  *)
(***************************************************************************)
\* C12 (as claimed): the retry after EINVAL has at least double the
\* capacity of the failed call.
C12_RetryCapacityDoubles ==
    \A w \in Workers :
        (variant = "uring" /\ einval_cap[w] # 0) => local_buf[w] >= 2 * einval_cap[w]

(***************************************************************************)
(* C13. A step that writes the parameters of a slot writes a slot whose    *)
(* occupancy bit was clear and whose parameters were None in the state     *)
(* before, the lowest such slot, and sets its bit; and the kernel writes   *)
(* the metadata buffer of occupied slots only.                             *)
(***************************************************************************)
SlotWritten(w, i) == params'[w][i] # params[w][i] /\ params'[w][i] # None

OpSlot(op) == SlotOf(AsI64(op.ud))

\* C13: enqueue takes the lowest-numbered free slot and never writes an
\* occupied one.
C13_LowestFreeSlotNeverOccupied ==
    [][\A w \in Workers : \A i \in Slots :
          /\ SlotWritten(w, i) =>
                /\ Bit(active_mask[w], i) = 0 /\ params[w][i] = None
                /\ \A j \in 0..(i - 1) : Bit(active_mask[w], j) = 1
                /\ active_mask'[w] = active_mask[w] + 2^i
                /\ \A j \in Slots \ {i} : params'[w][j] = params[w][j]
          /\ bufs'[w][i] # bufs[w][i] => Bit(active_mask[w], i) = 1]_vars

\* After a wait on the full ring, the operation queued last sits in slot 0
\* while an older operation, already submitted, still holds slot 1.
C13_Witness ==
    \E w \in Workers :
        /\ full_waits >= 1 /\ active_mask[w] = BUF_MASK_ALL
        /\ \E a \in SeqToSet(sq[w]) : \E b \in kern[w] : OpSlot(a) = 0 /\ OpSlot(b) = 1

(***************************************************************************)
(* C14. enqueue on a full ring: everything queued is submitted and the     *)
(* thread waits for one completion; the wait ends with at least one        *)
(* completion, each of which frees its slot, so that the allocation that   *)
(* follows finds a free slot.  The number of occupied slots never exceeds  *)
(* the capacity and the assertion in enqueue never fails.                  *)
(***************************************************************************)
FullWaitState ==
    \A w \in Workers :
        /\ active_mask[w] \in 0..BUF_MASK_ALL
        /\ CountOnes(active_mask[w]) <= IO_URING_ENTRIES
        /\ pc[w] = "full" =>
              /\ active_mask[w] = BUF_MASK_ALL /\ want[w] = 1
              /\ sq[w] = << >>
              /\ Cardinality(kern[w]) + Len(cq[w]) = IO_URING_ENTRIES
        /\ pc[w] = "alloc" =>
              /\ active_mask[w] # BUF_MASK_ALL
              /\ TrailingOnes(active_mask[w]) < IO_URING_ENTRIES

FullWaitStep ==
    \A w \in Workers :
        (pc[w] = "full" /\ pc'[w] # "full") =>
            /\ pc'[w] = "alloc"
            /\ Len(cq[w]) >= 1
            /\ CountOnes(active_mask'[w]) = IO_URING_ENTRIES - Len(cq[w])

\* C14: a full ring is flushed and waited on for a completion before a
\* slot is allocated; occupancy never exceeds the capacity and the
\* process never aborts.
C14_FullRingWaitsForFreeSlot ==
    /\ [](FullWaitState /\ main # "aborted")
    /\ [][FullWaitStep]_vars

\* The wait on a full ring is over: one slot was freed, the other
\* operation is still in the kernel, the allocation is about to happen.
C14_Witness ==
    \E w \in Workers :
        /\ pc[w] = "alloc" /\ full_waits >= 1
        /\ CountOnes(active_mask[w]) = IO_URING_ENTRIES - 1
        /\ kern[w] # {}

(***************************************************************************)
(* C15. Completion routing.  Every operation queued, in the kernel or      *)
(* completed carries a user_data that reads, as i64, non-negative exactly  *)
(* when it is a statx, and that decodes to the slot holding the            *)
(* operation's parameters.  A step that processes completions spawns       *)
(* exactly one task per successful openat and records exactly the sizes    *)
(* of the successful statx (less the zero sizes filtered out).             *)
(***************************************************************************)
TagRight(op) ==
    /\ (AsI64(op.ud) >= 0) <=> (op.opc = "statx")
    /\ OpSlot(op) \in Slots
    /\ op.opc = "statx" => OpSlot(op) = op.buf

RoutingState ==
    \A w \in Workers :
        /\ \A op \in Pending(w) : TagRight(op)
        /\ \A e \in Cqes(w) :
              /\ e.ud = e.op.ud /\ TagRight(e.op)
              /\ params[w][OpSlot(e.op)] = [dirfd |-> e.op.dirfd, name |-> e.op.name]

OkStat(w) == { e \in Cqes(w) : e.op.opc = "statx" /\ e.res >= 0 }
OkOpen(w) == { e \in Cqes(w) : e.op.opc = "openat" /\ e.res >= 0 }

RoutingStep ==
    \A w \in Workers :
        (cq[w] # << >> /\ cq'[w] = << >>) =>
            /\ tasks' = tasks \cup { FdTask(e.res) : e \in OkOpen(w) }
            /\ \A e \in OkOpen(w) : FdTask(e.res) \notin tasks
            /\ recorded' = recorded (+)
                  SetToBag({ e.node : e \in { x \in OkStat(w) : Keep(tree[x.node].size) } })
            /\ BagCardinality(recorder'[w]) - BagCardinality(recorder[w])
                  = Cardinality({ x \in OkStat(w) : Keep(tree[x.node].size) })

\* C15: user_data tells a lookup from an open and names the slot; a
\* successful open spawns and is never recorded, a successful lookup is
\* recorded and never spawns.
C15_CompletionRouting ==
    /\ []RoutingState
    /\ [][RoutingStep]_vars

\* The root of NestTree on a ring of two slots: the open of d2 was routed
\* to a task that has not started yet, the lookup of f to the recorder.
C15_Witness ==
    /\ variant = "uring" /\ tree = NestTree
    /\ Count(4) = 1
    /\ \E t \in tasks : t.k = "fd" /\ fdtable[t.fd] = 3

(***************************************************************************)
(* C16. A step that processes completions frees the slot of every one of   *)
(* them; for those with a negative result it adds exactly one error each,  *)
(* naming the directory the operation's dirfd is open on and the entry     *)
(* name, and it records no size and spawns no task on their account.       *)
(***************************************************************************)
Neg(w) == { e \in Cqes(w) : e.res < 0 }

ErrorOf(e) ==
    [src |-> "complete", dir |-> DirPath(e.op.dirfd), name |-> e.op.name, errno |-> -e.res]

FailedCompletionStep ==
    \A w \in Workers :
        (cq[w] # << >> /\ cq'[w] = << >>) =>
            /\ \A e \in Cqes(w) :
                  /\ Bit(active_mask[w], OpSlot(e.op)) = 1
                  /\ Bit(active_mask'[w], OpSlot(e.op)) = 0
                  /\ params'[w][OpSlot(e.op)] = None
            /\ errs' = errs (+) SetToBag({ ErrorOf(e) : e \in Neg(w) })
            /\ BagCardinality(errs') = BagCardinality(errs) + Cardinality(Neg(w))
            /\ \A e \in Neg(w) :
                  /\ DirPath(e.op.dirfd) # 0
                  /\ e.node # 0 =>
                        /\ tree[e.node].parent = DirPath(e.op.dirfd)
                        /\ tree[e.node].name = e.op.name
                        /\ Count(e.node)' = Count(e.node)
                  /\ \A t \in tasks' \ tasks : t.fd # e.res
            /\ BagCardinality(recorded') - BagCardinality(recorded)
                  + Cardinality(tasks' \ tasks) <= Len(cq[w]) - Cardinality(Neg(w))

\* C16: a failed completion frees its slot, records nothing, spawns
\* nothing, and is reported exactly once with its directory and name.
C16_FailedCompletionReportedOnce == [][FailedCompletionStep]_vars

\* The lookup of f failed: it was reported once as root/f, f was not
\* recorded, the rest of the tree was, and the run ended.
C16_Witness ==
    /\ variant = "uring" /\ tree = StatErrorTree /\ include_empty
    /\ main = "done"
    /\ errs = SetToBag({[src |-> "complete", dir |-> 1, name |-> "f", errno |-> EACCES]})
    /\ Count(4) = 0 /\ Count(5) = 1 /\ Count(7) = 1

(***************************************************************************)
(* C17. main.rs: every open descriptor has exactly one owner: a completion *)
(* not yet processed, a spawned task not yet started, or the task running  *)
(* on one worker.  A descriptor passes from the task queue to one worker,  *)
(* is closed by that worker's task when it ends, and none is open once the *)
(* scope has ended.  At the end of the run every directory that could be   *)
(* opened has been enumerated by exactly one task, and no other.           *)
(***************************************************************************)
Holders(f) == { w \in Workers : dirfd[w] = f }
Queued(f) == { t \in tasks : t.k = "fd" /\ t.fd = f }
Arriving(f) == { w \in Workers : \E e \in OkOpen(w) : e.res = f }

Owners(f) == Cardinality(Holders(f)) + Cardinality(Queued(f)) + Cardinality(Arriving(f))

OneOwner ==
    /\ \A f \in Fds : Owners(f) = IF fdtable[f] # 0 THEN 1 ELSE 0
    /\ \A w \in Workers : dirfd[w] \in Fds \cup {0}
    /\ \A t \in tasks : t.k = "fd" => t.fd \in Fds
    /\ main \in {"term", "refreshed", "done"} => \A f \in Fds : fdtable[f] = 0
    /\ (main = "done" /\ variant = "uring") =>
          \A d \in Nodes : CopiesIn(d, visited) = IF OpenedIn(tree, d) THEN 1 ELSE 0

HandOver ==
    /\ \A w \in Workers :
          (dirfd'[w] # dirfd[w] /\ dirfd'[w] # 0) =>
              /\ dirfd[w] = 0
              /\ FdTask(dirfd'[w]) \in tasks /\ FdTask(dirfd'[w]) \notin tasks'
    /\ \A f \in Fds :
          (fdtable[f] # 0 /\ fdtable'[f] = 0) =>
              \E w \in Workers : dirfd[w] = f /\ dirfd'[w] = 0 /\ pc'[w] = "idle"

ListFails(d) == tree[d].kind = "dir" /\ tree[d].lerr # -1

OneListError ==
    /\ variant = "uring"
    /\ Cardinality({ d \in Nodes : ListFails(d) }) = 1
    /\ \A n \in Nodes : ~tree[n].fail
    /\ NoOversize

TheListError == CHOOSE d \in Nodes : ListFails(d)

ListHealed == [tree EXCEPT ![TheListError].lerr = -1]

DrainsAll ==
    \A w \in Workers :
        pc[w] = "drain" =>
            /\ want[w] = CountOnes(active_mask[w]) /\ sq[w] = << >>
            /\ Cardinality(kern[w]) + Len(cq[w]) = want[w]

ListErrorOutcome ==
    /\ \A n \in Nodes :
          Count(n) = IF Under(n, TheListError)
                     THEN (IF ExpectedIn(tree, n) THEN 1 ELSE 0)
                     ELSE (IF ExpectedIn(ListHealed, n) THEN 1 ELSE 0)
    /\ \A d \in Nodes :
          CopiesIn(d, visited) = IF OpenedIn(tree, d) THEN 1 ELSE 0
    /\ OpenedIn(tree, TheListError) /\ CopiesIn(TheListError, visited) = 1
    /\ errs = SetToBag({[src |-> "traverse", dir |-> TheListError, name |-> "",
                         errno |-> EIO]})

\* C18: a listing error ends the enumeration of that directory only; what
\* was enqueued before it is completed, the error is reported once, the
\* run ends and the other directories are handled as without it.
C18_ListingErrorStopsOneDirectory ==
    /\ [](OneListError => DrainsAll)
    /\ <>(OneListError => main = "done")
    /\ []((OneListError /\ main = "done") => ListErrorOutcome)

\* The listing of d1 failed after x: x was recorded, s was never seen, y
\* and f were recorded, one error was reported, and the run ended.
C18_Witness ==
    /\ variant = "uring" /\ tree = ListErrorTree /\ include_empty
    /\ main = "done"
    /\ Count(5) = 1 /\ Count(6) = 0 /\ Count(7) = 1 /\ Count(4) = 1
    /\ BagCardinality(errs) = 1

(***************************************************************************)
(* C19. main.rs: a worker runs at most one traverse_dir at a time: the     *)
(* borrow of its RefCell never fails, a worker that is inside a task holds *)
(* exactly the one directory of that task, and a worker between tasks      *)
(* holds none.  The ring is empty when a task starts and when it ends, and *)
(* every occupied slot names an entry of the directory being enumerated.   *)
(***************************************************************************)
RingEmpty(w) ==
    /\ active_mask[w] = 0 /\ sq[w] = << >> /\ kern[w] = {} /\ cq[w] = << >>
    /\ \A i \in Slots : params[w][i] = None

InTask(w) == pc[w] \in {"list", "enq", "full", "alloc", "drain"}

OneTaskPerWorker ==
    /\ main # "panicked"
    /\ \A w \in Workers :
          /\ ~InTask(w) => (dirfd[w] = 0 /\ RingEmpty(w) /\ iter[w] = << >>)
          /\ InTask(w) =>
                /\ variant = "uring"
                /\ dirfd[w] \in Fds /\ fdtable[dirfd[w]] # 0
                /\ \A v \in Workers \ {w} : dirfd[v] # dirfd[w]
          /\ \A i \in Slots : Bit(active_mask[w], i) = 1 =>
                /\ params[w][i].dirfd = dirfd[w]
                /\ Lookup(fdtable[dirfd[w]], params[w][i].name) # 0

TaskBoundary ==
    \A w \in Workers :
        /\ (~InTask(w) /\ InTask(w)') => (RingEmpty(w) /\ RingEmpty(w)' /\ pc'[w] = "list")
        /\ (InTask(w) /\ ~InTask(w)') => (RingEmpty(w)' /\ dirfd'[w] = 0)
        /\ (InTask(w) /\ InTask(w)') => dirfd'[w] = dirfd[w]

\* C19: one task per worker at a time, no re-entrant borrow, the ring
\* empty at the start and the end of each task, every occupied slot an
\* entry of the directory being enumerated.
C19_OneTaskPerWorker ==
    /\ []OneTaskPerWorker
    /\ [][TaskBoundary]_vars

\* A worker blocked in the wait at the end of its task, with occupied
\* slots, while a task it spawned earlier waits in the queue: the task is
\* left for later (or for another thread).
C19_Witness ==
    \E w \in Workers :
        /\ variant = "uring" /\ pc[w] = "drain" /\ Len(cq[w]) < want[w]
        /\ active_mask[w] # 0
        /\ \E t \in tasks : t.k = "fd"

(***************************************************************************)
(* C20. Ring bookkeeping: a slot's bit is set exactly when its parameters  *)
(* are Some; every occupied slot has exactly one operation, which is       *)
(* queued, in the kernel or completed and not yet processed, so every      *)
(* completion names an occupied slot; processing completions only clears   *)
(* bits; the queue of unsubmitted operations is never longer than the      *)
(* number of occupied slots, which is at most the capacity; no assert,     *)
(* unwrap or push fails.                                                   *)
(***************************************************************************)
InFlight(w) == Pending(w) \cup { e.op : e \in Cqes(w) }

Bookkeeping ==
    \A w \in Workers :
        /\ \A i \in Slots : (Bit(active_mask[w], i) = 1) <=> (params[w][i] # None)
        /\ \A e \in Cqes(w) :
              /\ SlotOf(AsI64(e.ud)) \in Slots
              /\ Bit(active_mask[w], SlotOf(AsI64(e.ud))) = 1
        /\ \A i \in Slots : Bit(active_mask[w], i) = 1 =>
              Cardinality({ op \in InFlight(w) : OpSlot(op) = i }) = 1
        /\ Len(sq[w]) + Cardinality(kern[w]) + Len(cq[w]) = CountOnes(active_mask[w])
        /\ Len(sq[w]) <= CountOnes(active_mask[w])
        /\ CountOnes(active_mask[w]) <= IO_URING_ENTRIES

XorOnlyClears ==
    \A w \in Workers :
        (cq[w] # << >> /\ cq'[w] = << >>) =>
            /\ \A i \in Slots : Bit(active_mask'[w], i) = 1 => Bit(active_mask[w], i) = 1
            /\ CountOnes(active_mask'[w]) = CountOnes(active_mask[w]) - Len(cq[w])

\* C20: bit set iff parameters present, completions only for occupied
\* slots, the XOR only clears, the submission queue never overflows, and
\* nothing panics.
C20_RingBookkeeping ==
    /\ [](Bookkeeping /\ main \notin {"aborted", "panicked"})
    /\ [][XorOnlyClears]_vars

\* A task at its final wait with every slot occupied: one operation
\* completed and not yet processed, the others still in the kernel.
C20_Witness ==
    \E w \in Workers :
        /\ active_mask[w] = BUF_MASK_ALL
        /\ Len(cq[w]) = 1 /\ Cardinality(kern[w]) = IO_URING_ENTRIES - 1
        /\ pc[w] = "drain"


=============================================================================
